---------------------------- MODULE Spec2Model ----------------------------
(***************************************************************************)
(* A model of package glpk (src/glpk/glpk.go): the Go binding of the GLPK   *)
(* problem object.  The Go side is the Prob wrapper with its nil-able       *)
(* native handle and its finalizer; the engine side is the part of the      *)
(* GLPK problem object that the wrapped calls read and write (counts,       *)
(* names, bounds, objective, the sparse matrix as row and column lists,     *)
(* the basic solution).                                                     *)
(*                                                                          *)
(* Conventions.                                                             *)
(*   - A Go slice is a sequence whose element 1 is slot 0 of the slice.     *)
(*   - A float64 is an integer standing for that many units (0 is 0.0).     *)
(*   - A string is the sequence of its bytes.                               *)
(*   - A Go int (64 bits) is a record [hi, lo]: the value hi * 2^32 + lo    *)
(*     with lo the low 32 bits read as a signed number, so that the         *)
(*     conversion C.int(x) is exactly x.lo.                                 *)
(*   - An engine call either returns (ok) or ends the process through the   *)
(*     engine's xerror (not ok).                                            *)
(***************************************************************************)
EXTENDS Integers, Sequences, FiniteSets, TLC

VARIABLES probs, eng, alive, fault, last, trans, wksp, run

vars == <<probs, eng, alive, fault, last, trans, wksp, run>>

\* The translators, their workspaces and the call in flight: what the
\* methods of Prob leave alone.
rest == <<trans, wksp, run>>

-----------------------------------------------------------------------------
(* Bounds of the model. *)

MaxProbs == 2
MaxRows == 2
MaxCols == 2
MaxTrans == 1

-----------------------------------------------------------------------------
(* Constants of glpk.h as the Go package names them. *)

MAX == 2
MIN == 1

FR == 1
LO == 2
UP == 3
DB == 4
FX == 5

UNDEF == 1
FEAS == 2
INFEAS == 3
NOFEAS == 4
OPT == 5
UNBND == 6

EBADB == 1
EFAIL == 5
ETMLIM == 9
ESING == 2
ECOND == 3
EBOUND == 4
EOBJLL == 6
EOBJUL == 7
EITLIM == 8
ENOPFS == 10
ENODFS == 11
EROOT == 12
ESTOP == 13
EMIPGAP == 14
ENOFEAS == 15
ENOCVG == 16
EINSTAB == 17
EDATA == 18
ERANGE == 19

GLP_ON == 1
GLP_OFF == 0

\* The nil handle.
NIL == 0

-----------------------------------------------------------------------------
(* Conversions at the cgo boundary. *)

\* A Go int from its high word and its (signed) low word.
G(h, l) == [hi |-> h, lo |-> l]

\* C.int(x) of a Go int: the low 32 bits.
CInt(x) == x.lo

\* int(c) of a C int.
GoInt(c) == [hi |-> 0, lo |-> c]

\* The sum of two Go ints whose low words do not carry.
GoAdd(a, b) == [hi |-> a.hi + b.hi, lo |-> a.lo + b.lo]

\* A C string: NULL, or the bytes before the terminating NUL.
NULLSTR == [null |-> TRUE, s |-> <<>>]

\* The position of the first NUL byte of s, or Len(s) + 1.
FirstNul(s) == IF \E k \in 1..Len(s) : s[k] = 0
               THEN CHOOSE k \in 1..Len(s) : s[k] = 0 /\ \A q \in 1..(k - 1) : s[q] # 0
               ELSE Len(s) + 1

\* C.CString(name), as the engine reads it: the bytes up to the first NUL.
CString(name) == [null |-> FALSE, s |-> SubSeq(name, 1, FirstNul(name) - 1)]

\* C.GoString(c): the empty string for NULL.
GoString(c) == IF c.null THEN <<>> ELSE c.s

\* Element k (0-based) of a Go slice handed to the engine as a C array.
CAt(s, k) == IF k + 1 \in 1..Len(s) THEN s[k + 1] ELSE 0

\* make([]T, n): n zeroed slots.
Make(n) == [k \in 1..n |-> 0]

Rev(s) == [k \in 1..Len(s) |-> s[Len(s) + 1 - k]]

-----------------------------------------------------------------------------
(* The engine's problem object. *)

\* glp_create_prob: the empty problem.
EmptyProb ==
    [live |-> TRUE, frees |-> 0,
     name |-> NULLSTR, obj |-> NULLSTR, dir |-> MIN,
     m |-> 0, n |-> 0,
     rname |-> <<>>, cname |-> <<>>,
     rbnd |-> <<>>, cbnd |-> <<>>,
     c0 |-> 0, coef |-> <<>>,
     rowl |-> <<>>, coll |-> <<>>,
     pbs |-> UNDEF, dbs |-> UNDEF, objval |-> 0, prim |-> <<>>]

\* An engine call that returned e and ret, and one that ended in xerror.
R(e, ret) == [ok |-> TRUE, e |-> e, ret |-> ret]
X(e) == [ok |-> FALSE, e |-> e, ret |-> 0]

\* glp_delete_prob: the object's memory is released.
glp_delete_prob(e) ==
    R([EmptyProb EXCEPT !.live = FALSE,
                        !.frees = IF e.frees < 2 THEN e.frees + 1 ELSE 2], 0)

\* glp_erase_prob: back to the empty problem, the object itself stays.
glp_erase_prob(e) == R([EmptyProb EXCEPT !.frees = e.frees], 0)

\* The engine's check of a symbolic name: no control characters.
NameOk(c) == c.null \/ \A k \in 1..Len(c.s) : c.s[k] >= 32 /\ c.s[k] # 127

\* What the engine stores for a name: NULL for NULL and for the empty string.
Stored(c) == IF c.null \/ c.s = <<>> THEN NULLSTR ELSE c

glp_set_prob_name(e, c) ==
    IF ~NameOk(c) THEN X(e) ELSE R([e EXCEPT !.name = Stored(c)], 0)

glp_set_obj_name(e, c) ==
    IF ~NameOk(c) THEN X(e) ELSE R([e EXCEPT !.obj = Stored(c)], 0)

glp_set_obj_dir(e, dir) ==
    IF dir \notin {MIN, MAX} THEN X(e) ELSE R([e EXCEPT !.dir = dir], 0)

\* glp_add_rows: nrs >= 1 new free rows, at most 100000000 rows in all.
glp_add_rows(e, nrs) ==
    IF nrs < 1 \/ nrs > 100000000 - e.m THEN X(e)
    ELSE R([e EXCEPT !.m = e.m + nrs,
                     !.rname = e.rname \o [k \in 1..nrs |-> NULLSTR],
                     !.rbnd = e.rbnd \o [k \in 1..nrs |-> <<FR, 0, 0>>],
                     !.rowl = e.rowl \o [k \in 1..nrs |-> <<>>]],
           e.m + 1)

\* glp_add_cols: ncs >= 1 new columns fixed at zero.
glp_add_cols(e, ncs) ==
    IF ncs < 1 \/ ncs > 100000000 - e.n THEN X(e)
    ELSE R([e EXCEPT !.n = e.n + ncs,
                     !.cname = e.cname \o [k \in 1..ncs |-> NULLSTR],
                     !.cbnd = e.cbnd \o [k \in 1..ncs |-> <<FX, 0, 0>>],
                     !.coef = e.coef \o [k \in 1..ncs |-> 0],
                     !.prim = e.prim \o [k \in 1..ncs |-> 0],
                     !.coll = e.coll \o [k \in 1..ncs |-> <<>>]],
           e.n + 1)

glp_set_row_name(e, i, c) ==
    IF i \notin 1..e.m \/ ~NameOk(c) THEN X(e)
    ELSE R([e EXCEPT !.rname[i] = Stored(c)], 0)

glp_set_col_name(e, j, c) ==
    IF j \notin 1..e.n \/ ~NameOk(c) THEN X(e)
    ELSE R([e EXCEPT !.cname[j] = Stored(c)], 0)

\* The bounds the engine keeps for a bound type.
Bnds(type, lb, ub) ==
    CASE type = FR -> <<FR, 0, 0>>
      [] type = LO -> <<LO, lb, 0>>
      [] type = UP -> <<UP, 0, ub>>
      [] type = DB -> <<DB, lb, ub>>
      [] OTHER -> <<FX, lb, lb>>

glp_set_row_bnds(e, i, type, lb, ub) ==
    IF i \notin 1..e.m \/ type \notin {FR, LO, UP, DB, FX} THEN X(e)
    ELSE R([e EXCEPT !.rbnd[i] = Bnds(type, lb, ub)], 0)

glp_set_col_bnds(e, j, type, lb, ub) ==
    IF j \notin 1..e.n \/ type \notin {FR, LO, UP, DB, FX} THEN X(e)
    ELSE R([e EXCEPT !.cbnd[j] = Bnds(type, lb, ub)], 0)

\* glp_set_obj_coef: column 0 is the constant term.
glp_set_obj_coef(e, j, coef) ==
    IF j \notin 0..e.n THEN X(e)
    ELSE IF j = 0 THEN R([e EXCEPT !.c0 = coef], 0)
    ELSE R([e EXCEPT !.coef[j] = coef], 0)

-----------------------------------------------------------------------------
(* The constraint matrix.  Row i's list rowl[i] holds <<column, value>>     *)
(* pairs and column j's list coll[j] holds <<row, value>> pairs; a new      *)
(* element is put at the head of its lists, and elements equal to zero are  *)
(* not kept.                                                                *)

\* The pairs <<ind[k], val[k]>>, k = 1..len, of two C arrays.
Pairs(len, ind, val) == [k \in 1..len |-> <<CAt(ind, k), CAt(val, k)>>]

NonZero(ps) == SelectSeq(ps, LAMBDA p : p[2] # 0)

Distinct(len, ind) ==
    \A k1, k2 \in 1..len : k1 # k2 => CAt(ind, k1) # CAt(ind, k2)

\* A list without its elements of row (column) i.
Without(l, i) == SelectSeq(l, LAMBDA p : p[1] # i)

\* The list l of line j after line i got the elements ps.
Linked(l, i, j, ps) ==
    LET old == Without(l, i)
        new == SelectSeq(ps, LAMBDA p : p[1] = j /\ p[2] # 0)
    IN  IF new = <<>> THEN old ELSE <<<<i, new[1][2]>>>> \o old

\* glp_set_mat_row: replaces row i by len elements of ind and val.
glp_set_mat_row(e, i, len, ind, val) ==
    IF \/ i \notin 1..e.m
       \/ len \notin 0..e.n
       \/ \E k \in 1..len : CAt(ind, k) \notin 1..e.n
       \/ ~Distinct(len, ind)
    THEN X(e)
    ELSE LET ps == Pairs(len, ind, val)
         IN  R([e EXCEPT !.rowl[i] = Rev(NonZero(ps)),
                         !.coll = [j \in 1..e.n |-> Linked(e.coll[j], i, j, ps)]],
               0)

\* glp_set_mat_col: replaces column j by len elements of ind and val.
glp_set_mat_col(e, j, len, ind, val) ==
    IF \/ j \notin 1..e.n
       \/ len \notin 0..e.m
       \/ \E k \in 1..len : CAt(ind, k) \notin 1..e.m
       \/ ~Distinct(len, ind)
    THEN X(e)
    ELSE LET ps == Pairs(len, ind, val)
         IN  R([e EXCEPT !.coll[j] = Rev(NonZero(ps)),
                         !.rowl = [i \in 1..e.m |-> Linked(e.rowl[i], j, i, ps)]],
               0)

\* The triples <<ia[k], ja[k], ar[k]>>, k = 1..ne.
Triples(ne, ia, ja, ar) ==
    [k \in 1..ne |-> <<CAt(ia, k), CAt(ja, k), CAt(ar, k)>>]

\* The elements of column j taken from the row lists, rows m down to 1.
RECURSIVE ColFromRows(_, _, _)
ColFromRows(rowl, j, i) ==
    IF i = 0 THEN <<>>
    ELSE ColFromRows(rowl, j, i - 1) \o
         [k \in 1..Len(SelectSeq(rowl[i], LAMBDA p : p[1] = j)) |->
             <<i, SelectSeq(rowl[i], LAMBDA p : p[1] = j)[k][2]>>]

\* glp_load_matrix: replaces the whole matrix by ne triples.
glp_load_matrix(e, ne, ia, ja, ar) ==
    IF \/ ne < 0 \/ ne > 500000000
       \/ \E k \in 1..ne : CAt(ia, k) \notin 1..e.m \/ CAt(ja, k) \notin 1..e.n
       \/ \E k1, k2 \in 1..ne : /\ k1 # k2
                                /\ CAt(ia, k1) = CAt(ia, k2)
                                /\ CAt(ja, k1) = CAt(ja, k2)
    THEN X(e)
    ELSE LET ts == Triples(ne, ia, ja, ar)
             rows == [i \in 1..e.m |->
                        Rev([k \in 1..Len(SelectSeq(ts, LAMBDA t : t[1] = i)) |->
                              <<SelectSeq(ts, LAMBDA t : t[1] = i)[k][2],
                                SelectSeq(ts, LAMBDA t : t[1] = i)[k][3]>>])]
         IN  R([e EXCEPT !.rowl = [i \in 1..e.m |-> NonZero(rows[i])],
                         !.coll = [j \in 1..e.n |->
                                     NonZero(Rev(ColFromRows(rows, j, e.m)))]],
               0)

\* glp_get_mat_row: the elements of row i, in the order of its list.
glp_get_mat_row(e, i) ==
    IF i \notin 1..e.m THEN X(e) ELSE R(e, e.rowl[i])

\* glp_get_mat_col: the elements of column j, in the order of its list.
glp_get_mat_col(e, j) ==
    IF j \notin 1..e.n THEN X(e) ELSE R(e, e.coll[j])

\* The arrays glp_copy_prob reads a column into: slot 0 is not used.
IndOf(l) == Make(1) \o [k \in 1..Len(l) |-> l[k][1]]
ValOf(l) == Make(1) \o [k \in 1..Len(l) |-> l[k][2]]

\* glp_copy_prob's loop over the columns 1..j: each column is read from
\* src with glp_get_mat_col and written to dest with glp_set_mat_col.
RECURSIVE CopyCols(_, _, _)
CopyCols(dest, src, j) ==
    IF j = 0 THEN dest
    ELSE LET d == CopyCols(dest, src, j - 1)
             l == glp_get_mat_col(src, j).ret
         IN  glp_set_mat_col(d, j, Len(l), IndOf(l), ValOf(l)).e

\* glp_copy_prob: dest becomes a copy of src, with its names when names is
\* GLP_ON and without any name otherwise.
glp_copy_prob(dest, src, names) ==
    LET blank == [EmptyProb EXCEPT !.frees = dest.frees]
        base == [blank EXCEPT
                   !.name = IF names = GLP_ON THEN src.name ELSE NULLSTR,
                   !.obj = IF names = GLP_ON THEN src.obj ELSE NULLSTR,
                   !.dir = src.dir, !.c0 = src.c0,
                   !.m = src.m, !.n = src.n,
                   !.rname = IF names = GLP_ON THEN src.rname
                             ELSE [k \in 1..src.m |-> NULLSTR],
                   !.cname = IF names = GLP_ON THEN src.cname
                             ELSE [k \in 1..src.n |-> NULLSTR],
                   !.rbnd = src.rbnd, !.cbnd = src.cbnd, !.coef = src.coef,
                   !.rowl = [k \in 1..src.m |-> <<>>],
                   !.coll = [k \in 1..src.n |-> <<>>],
                   !.pbs = src.pbs, !.dbs = src.dbs,
                   !.objval = src.objval, !.prim = src.prim]
    IN  R(CopyCols(base, src, src.n), 0)

-----------------------------------------------------------------------------
(* The solvers.  What glp_simplex and glp_exact compute is the engine's     *)
(* business: a call ends with one of the outcomes below, a return code and  *)
(* the basic solution it leaves in the problem object.                      *)

Outcome(code, pbs, dbs, v) == [code |-> code, pbs |-> pbs, dbs |-> dbs, v |-> v]

SimplexOutcomes ==
    {Outcome(0, FEAS, FEAS, 1), Outcome(0, NOFEAS, UNDEF, 0),
     Outcome(EFAIL, UNDEF, UNDEF, 0), Outcome(ETMLIM, INFEAS, INFEAS, 0)}

ExactOutcomes ==
    {Outcome(0, FEAS, FEAS, 1), Outcome(EBADB, UNDEF, UNDEF, 0)}

\* The codes glp_simplex and glp_exact return, 0 for a run that ended well.
SimplexCodes ==
    {0, EBADB, ESING, ECOND, EBOUND, EFAIL, EOBJLL, EOBJUL, EITLIM, ETMLIM,
     ENOPFS, ENODFS}

ExactCodes == {0, EBADB, ESING, EBOUND, EFAIL, EITLIM, ETMLIM}

\* A run that ended with the given code and no solution.
Failed(code) == Outcome(code, UNDEF, UNDEF, 0)

\* A solver run ending with outcome o.
glp_solve(e, o) ==
    R([e EXCEPT !.pbs = o.pbs, !.dbs = o.dbs, !.objval = o.v,
                !.prim = [j \in 1..e.n |-> o.v]],
      o.code)

\* The control parameters handed to a solver: none (parm is nil, the engine
\* takes its defaults), the struct NewSmcp initialized ("smcp"), or a
\* zeroed Smcp{} ("zero"), whose method 0 the engine rejects with xerror.
Parms == {"nil", "smcp", "zero"}

glp_simplex(e, parm, o) == IF parm = "zero" THEN X(e) ELSE glp_solve(e, o)

glp_exact(e, parm, o) == IF parm = "zero" THEN X(e) ELSE glp_solve(e, o)

\* glp_get_status, from the primal and dual statuses.
glp_get_status(e) ==
    IF e.pbs = FEAS
    THEN CASE e.dbs = FEAS -> OPT
           [] e.dbs = NOFEAS -> UNBND
           [] OTHER -> FEAS
    ELSE e.pbs

-----------------------------------------------------------------------------
(* The Go side.  probs[x] is the x-th Prob made by New or Copy: p is the    *)
(* native handle p.p.p (NIL once released), fin tells whether a finalizer   *)
(* is registered for it ("set"), has run ("ran") or was never registered    *)
(* ("none"), and ref whether the program still holds the Prob.  eng[h] is   *)
(* the engine's object behind handle h.  alive is FALSE once the process    *)
(* has been ended by the engine; fault records a handle misuse (a nil or    *)
(* released handle reaching the engine).  last is the latest call: the      *)
(* operation, its receiver and arguments, how it ended, what it returned,   *)
(* the engine functions it called and what the engine returned to it.       *)

Call(op, x, args, out, ret, calls, eret) ==
    [op |-> op, x |-> x, args |-> args, out |-> out, ret |-> ret, calls |-> calls,
     eret |-> eret]

\* No call of a method is in flight.
NoCall == [op |-> "none", x |-> 0, h |-> NIL, parm |-> "nil"]

\* No translator yet, and no call in flight.
NoRest ==
    /\ trans = <<>>
    /\ wksp = <<>>
    /\ run = NoCall

Init ==
    /\ probs = <<>>
    /\ eng = <<>>
    /\ alive = TRUE
    /\ fault = "none"
    /\ last = Call("init", 0, <<>>, "ok", <<>>, <<>>, 0)
    /\ NoRest

\* The program holds Prob x and may call its methods.
Holds(x) == alive /\ x \in 1..Len(probs) /\ probs[x].ref

\* p.p.p == nil
IsDeleted(x) == probs[x].p = NIL

\* The engine's object behind the handle of x.
E(x) == eng[probs[x].p]

\* panic("Prob method called on a deleted problem")
PanicDeleted(op, x, args) ==
    /\ last' = Call(op, x, args, "panic_deleted", <<>>, <<>>, 0)
    /\ UNCHANGED <<probs, eng, alive, fault, rest>>

\* panic("len(ind) and len(val) should be equal") and LoadMatrix's like.
PanicLength(op, x, args) ==
    /\ last' = Call(op, x, args, "panic_length", <<>>, <<>>, 0)
    /\ UNCHANGED <<probs, eng, alive, fault, rest>>

\* A call of the engine with handle h that is nil or already released.
BadHandle(h) == h = NIL \/ ~eng[h].live

\* The method's engine call(s) on the handle of x ended with r: the process
\* ends if the engine raised xerror, and else the method returns ret.
Engine(op, x, args, calls, r, ret) ==
    IF BadHandle(probs[x].p)
    THEN /\ fault' = (IF probs[x].p = NIL THEN "nil_handle" ELSE "freed_handle")
         /\ alive' = FALSE
         /\ last' = Call(op, x, args, "fault", <<>>, calls, 0)
         /\ UNCHANGED <<probs, eng, rest>>
    ELSE IF ~r.ok
    THEN /\ alive' = FALSE
         /\ last' = Call(op, x, args, "abort", <<>>, calls, 0)
         /\ UNCHANGED <<probs, eng, fault, rest>>
    ELSE /\ eng' = [eng EXCEPT ![probs[x].p] = r.e]
         /\ last' = Call(op, x, args, "ok", ret, calls, r.ret)
         /\ UNCHANGED <<probs, alive, fault, rest>>

\* New: a fresh engine object behind a Prob with a finalizer.
New ==
    /\ alive
    /\ Len(probs) < MaxProbs
    /\ eng' = Append(eng, EmptyProb)
    /\ probs' = Append(probs, [p |-> Len(eng) + 1, fin |-> "set", ref |-> TRUE])
    /\ last' = Call("New", Len(probs) + 1, <<>>, "ok", <<>>, <<"glp_create_prob">>, 0)
    /\ UNCHANGED <<alive, fault, rest>>

\* The release both Delete and finalizeProb do: once, then the handle is nil.
Release(x) ==
    IF probs[x].p # NIL
    THEN /\ eng' = [eng EXCEPT ![probs[x].p] = glp_delete_prob(eng[probs[x].p]).e]
         /\ fault' = (IF eng[probs[x].p].live THEN fault ELSE "double_free")
    ELSE UNCHANGED <<eng, fault>>

\* Delete leaving the handle in place.
Delete_KeepsHandle(x) ==
    /\ Holds(x)
    /\ Release(x)
    /\ probs' = probs
    /\ last' = Call("Delete", x, <<>>, "ok", <<>>,
                    IF probs[x].p # NIL THEN <<"glp_delete_prob">> ELSE <<>>, 0)
    /\ UNCHANGED <<alive, rest>>

Delete(x) ==
    /\ Holds(x)
    /\ Release(x)
    /\ probs' = [probs EXCEPT ![x].p = NIL]
    /\ last' = Call("Delete", x, <<>>, "ok", <<>>,
                    IF probs[x].p # NIL THEN <<"glp_delete_prob">> ELSE <<>>, 0)
    /\ UNCHANGED <<alive, rest>>

\* The program lets go of its last reference to Prob x.
Drop(x) ==
    /\ Holds(x)
    /\ probs' = [probs EXCEPT ![x].ref = FALSE]
    /\ last' = Call("Drop", x, <<>>, "ok", <<>>, <<>>, 0)
    /\ UNCHANGED <<eng, alive, fault, rest>>

\* finalizeProb, run by the garbage collector on an unreachable prob.
finalizeProb(x) ==
    /\ alive
    /\ x \in 1..Len(probs)
    /\ ~probs[x].ref
    /\ probs[x].fin = "set"
    /\ Release(x)
    /\ probs' = [probs EXCEPT ![x].p = NIL, ![x].fin = "ran"]
    /\ last' = Call("finalizeProb", x, <<>>, "ok", <<>>,
                    IF probs[x].p # NIL THEN <<"glp_delete_prob">> ELSE <<>>, 0)
    /\ UNCHANGED <<alive, rest>>

\* Erase calling glp_delete_prob in place of glp_erase_prob.
Erase_Deletes(x) ==
    /\ Holds(x)
    /\ IF IsDeleted(x) THEN PanicDeleted("Erase", x, <<>>)
       ELSE Engine("Erase", x, <<>>, <<"glp_delete_prob">>, glp_delete_prob(E(x)), <<>>)

Erase(x) ==
    /\ Holds(x)
    /\ IF IsDeleted(x) THEN PanicDeleted("Erase", x, <<>>)
       ELSE Engine("Erase", x, <<>>, <<"glp_erase_prob">>, glp_erase_prob(E(x)), <<>>)

SetProbName(x, name) ==
    /\ Holds(x)
    /\ IF IsDeleted(x) THEN PanicDeleted("SetProbName", x, <<name>>)
       ELSE Engine("SetProbName", x, <<name>>, <<"glp_set_prob_name">>,
                   glp_set_prob_name(E(x), CString(name)), <<>>)

SetObjName(x, name) ==
    /\ Holds(x)
    /\ IF IsDeleted(x) THEN PanicDeleted("SetObjName", x, <<name>>)
       ELSE Engine("SetObjName", x, <<name>>, <<"glp_set_obj_name">>,
                   glp_set_obj_name(E(x), CString(name)), <<>>)

SetObjDir(x, dir) ==
    /\ Holds(x)
    /\ IF IsDeleted(x) THEN PanicDeleted("SetObjDir", x, <<dir>>)
       ELSE Engine("SetObjDir", x, <<dir>>, <<"glp_set_obj_dir">>,
                   glp_set_obj_dir(E(x), dir), <<>>)

\* AddRows returning the index of the last added row.
AddRows_LastIndex(x, nrs) ==
    /\ Holds(x)
    /\ IF IsDeleted(x) THEN PanicDeleted("AddRows", x, <<nrs>>)
       ELSE /\ CInt(nrs) <= MaxRows - E(x).m \/ CInt(nrs) > 100000000 - E(x).m
            /\ LET r == glp_add_rows(E(x), CInt(nrs))
               IN  Engine("AddRows", x, <<nrs>>, <<"glp_add_rows">>, r, <<GoInt(r.e.m)>>)

AddRows(x, nrs) ==
    /\ Holds(x)
    /\ IF IsDeleted(x) THEN PanicDeleted("AddRows", x, <<nrs>>)
       ELSE /\ CInt(nrs) <= MaxRows - E(x).m \/ CInt(nrs) > 100000000 - E(x).m
            /\ LET r == glp_add_rows(E(x), CInt(nrs))
               IN  Engine("AddRows", x, <<nrs>>, <<"glp_add_rows">>, r, <<GoInt(r.ret)>>)

AddCols(x, nrs) ==
    /\ Holds(x)
    /\ IF IsDeleted(x) THEN PanicDeleted("AddCols", x, <<nrs>>)
       ELSE /\ CInt(nrs) <= MaxCols - E(x).n \/ CInt(nrs) > 100000000 - E(x).n
            /\ LET r == glp_add_cols(E(x), CInt(nrs))
               IN  Engine("AddCols", x, <<nrs>>, <<"glp_add_cols">>, r, <<GoInt(r.ret)>>)

SetRowName(x, i, name) ==
    /\ Holds(x)
    /\ IF IsDeleted(x) THEN PanicDeleted("SetRowName", x, <<i, name>>)
       ELSE Engine("SetRowName", x, <<i, name>>, <<"glp_set_row_name">>,
                   glp_set_row_name(E(x), CInt(i), CString(name)), <<>>)

\* SetColName naming the row of that number.
SetColName_SetsRow(x, j, name) ==
    /\ Holds(x)
    /\ IF IsDeleted(x) THEN PanicDeleted("SetColName", x, <<j, name>>)
       ELSE Engine("SetColName", x, <<j, name>>, <<"glp_set_row_name">>,
                   glp_set_row_name(E(x), CInt(j), CString(name)), <<>>)

SetColName(x, j, name) ==
    /\ Holds(x)
    /\ IF IsDeleted(x) THEN PanicDeleted("SetColName", x, <<j, name>>)
       ELSE Engine("SetColName", x, <<j, name>>, <<"glp_set_col_name">>,
                   glp_set_col_name(E(x), CInt(j), CString(name)), <<>>)

SetRowBnds(x, i, type, lb, ub) ==
    /\ Holds(x)
    /\ IF IsDeleted(x) THEN PanicDeleted("SetRowBnds", x, <<i, type, lb, ub>>)
       ELSE Engine("SetRowBnds", x, <<i, type, lb, ub>>, <<"glp_set_row_bnds">>,
                   glp_set_row_bnds(E(x), CInt(i), type, lb, ub), <<>>)

SetColBnds(x, j, type, lb, ub) ==
    /\ Holds(x)
    /\ IF IsDeleted(x) THEN PanicDeleted("SetColBnds", x, <<j, type, lb, ub>>)
       ELSE Engine("SetColBnds", x, <<j, type, lb, ub>>, <<"glp_set_col_bnds">>,
                   glp_set_col_bnds(E(x), CInt(j), type, lb, ub), <<>>)

SetObjCoef(x, j, coef) ==
    /\ Holds(x)
    /\ IF IsDeleted(x) THEN PanicDeleted("SetObjCoef", x, <<j, coef>>)
       ELSE Engine("SetObjCoef", x, <<j, coef>>, <<"glp_set_obj_coef">>,
                   glp_set_obj_coef(E(x), CInt(j), coef), <<>>)

\* SetMatRow handing len(ind) to the engine as the number of elements.
SetMatRow_OffByOne(x, i, ind, val) ==
    /\ Holds(x)
    /\ IF IsDeleted(x) THEN PanicDeleted("SetMatRow", x, <<i, ind, val>>)
       ELSE IF Len(ind) # Len(val) THEN PanicLength("SetMatRow", x, <<i, ind, val>>)
       ELSE Engine("SetMatRow", x, <<i, ind, val>>, <<"glp_set_mat_row">>,
                   glp_set_mat_row(E(x), CInt(i), Len(ind), ind, val), <<>>)

SetMatRow(x, i, ind, val) ==
    /\ Holds(x)
    /\ IF IsDeleted(x) THEN PanicDeleted("SetMatRow", x, <<i, ind, val>>)
       ELSE IF Len(ind) # Len(val) THEN PanicLength("SetMatRow", x, <<i, ind, val>>)
       ELSE Engine("SetMatRow", x, <<i, ind, val>>, <<"glp_set_mat_row">>,
                   glp_set_mat_row(E(x), CInt(i), Len(ind) - 1, ind, val), <<>>)

\* SetMatCol without the check of the two lengths.
SetMatCol_NoLengthCheck(x, j, ind, val) ==
    /\ Holds(x)
    /\ IF IsDeleted(x) THEN PanicDeleted("SetMatCol", x, <<j, ind, val>>)
       ELSE Engine("SetMatCol", x, <<j, ind, val>>, <<"glp_set_mat_col">>,
                   glp_set_mat_col(E(x), CInt(j), Len(ind) - 1, ind, val), <<>>)

SetMatCol(x, j, ind, val) ==
    /\ Holds(x)
    /\ IF IsDeleted(x) THEN PanicDeleted("SetMatCol", x, <<j, ind, val>>)
       ELSE IF Len(ind) # Len(val) THEN PanicLength("SetMatCol", x, <<j, ind, val>>)
       ELSE Engine("SetMatCol", x, <<j, ind, val>>, <<"glp_set_mat_col">>,
                   glp_set_mat_col(E(x), CInt(j), Len(ind) - 1, ind, val), <<>>)

\* LoadMatrix handing the row numbers to the engine twice.
LoadMatrix_RowsTwice(x, ia, ja, ar) ==
    /\ Holds(x)
    /\ IF IsDeleted(x) THEN PanicDeleted("LoadMatrix", x, <<ia, ja, ar>>)
       ELSE IF Len(ia) # Len(ja) \/ Len(ia) # Len(ar)
       THEN PanicLength("LoadMatrix", x, <<ia, ja, ar>>)
       ELSE Engine("LoadMatrix", x, <<ia, ja, ar>>, <<"glp_load_matrix">>,
                   glp_load_matrix(E(x), Len(ia) - 1, ia, ia, ar), <<>>)

LoadMatrix(x, ia, ja, ar) ==
    /\ Holds(x)
    /\ IF IsDeleted(x) THEN PanicDeleted("LoadMatrix", x, <<ia, ja, ar>>)
       ELSE IF Len(ia) # Len(ja) \/ Len(ia) # Len(ar)
       THEN PanicLength("LoadMatrix", x, <<ia, ja, ar>>)
       ELSE Engine("LoadMatrix", x, <<ia, ja, ar>>, <<"glp_load_matrix">>,
                   glp_load_matrix(E(x), Len(ia) - 1, ia, ja, ar), <<>>)

\* Copy asking the engine for the names whatever the flag.
Copy_AlwaysNames(x, names) ==
    /\ Holds(x)
    /\ IF IsDeleted(x) THEN PanicDeleted("Copy", x, <<names>>)
       ELSE /\ Len(probs) < MaxProbs
            /\ eng' = Append(eng, glp_copy_prob(EmptyProb, E(x), GLP_ON).e)
            /\ probs' = Append(probs, [p |-> Len(eng) + 1, fin |-> "none", ref |-> TRUE])
            /\ last' = Call("Copy", x, <<names>>, "ok", <<Len(probs) + 1>>,
                            <<"glp_create_prob", "glp_copy_prob">>, 0)
            /\ UNCHANGED <<alive, fault, rest>>

\* Copy returning a second Prob over the handle of x.
Copy_SharedHandle(x, names) ==
    /\ Holds(x)
    /\ IF IsDeleted(x) THEN PanicDeleted("Copy", x, <<names>>)
       ELSE /\ Len(probs) < MaxProbs
            /\ probs' = Append(probs, [p |-> probs[x].p, fin |-> "none", ref |-> TRUE])
            /\ last' = Call("Copy", x, <<names>>, "ok", <<Len(probs) + 1>>, <<>>, 0)
            /\ UNCHANGED <<eng, alive, fault, rest>>

\* Copy: a fresh engine object, made a copy of x's; no finalizer is set.
Copy(x, names) ==
    /\ Holds(x)
    /\ IF IsDeleted(x) THEN PanicDeleted("Copy", x, <<names>>)
       ELSE /\ Len(probs) < MaxProbs
            /\ eng' = Append(eng, glp_copy_prob(EmptyProb, E(x),
                                    IF names THEN GLP_ON ELSE GLP_OFF).e)
            /\ probs' = Append(probs, [p |-> Len(eng) + 1, fin |-> "none", ref |-> TRUE])
            /\ last' = Call("Copy", x, <<names>>, "ok", <<Len(probs) + 1>>,
                            <<"glp_create_prob", "glp_copy_prob">>, 0)
            /\ UNCHANGED <<alive, fault, rest>>

-----------------------------------------------------------------------------
(* The engine's getters, and the Go getters over them. *)

glp_get_prob_name(e) == R(e, e.name)
glp_get_obj_name(e) == R(e, e.obj)
glp_get_obj_dir(e) == R(e, e.dir)
glp_get_num_rows(e) == R(e, e.m)
glp_get_num_cols(e) == R(e, e.n)
glp_get_row_name(e, i) == IF i \notin 1..e.m THEN X(e) ELSE R(e, e.rname[i])
glp_get_col_name(e, j) == IF j \notin 1..e.n THEN X(e) ELSE R(e, e.cname[j])
glp_get_obj_coef(e, j) ==
    IF j \notin 0..e.n THEN X(e) ELSE R(e, IF j = 0 THEN e.c0 ELSE e.coef[j])
glp_get_prim_stat(e) == R(e, e.pbs)
glp_get_dual_stat(e) == R(e, e.dbs)
glp_get_obj_val(e) == R(e, e.objval)
glp_get_col_prim(e, j) == IF j \notin 1..e.n THEN X(e) ELSE R(e, e.prim[j])

ProbName(x) ==
    /\ Holds(x)
    /\ IF IsDeleted(x) THEN PanicDeleted("ProbName", x, <<>>)
       ELSE LET r == glp_get_prob_name(E(x))
            IN  Engine("ProbName", x, <<>>, <<"glp_get_prob_name">>, r, <<GoString(r.ret)>>)

ObjName(x) ==
    /\ Holds(x)
    /\ IF IsDeleted(x) THEN PanicDeleted("ObjName", x, <<>>)
       ELSE LET r == glp_get_obj_name(E(x))
            IN  Engine("ObjName", x, <<>>, <<"glp_get_obj_name">>, r, <<GoString(r.ret)>>)

ObjDir(x) ==
    /\ Holds(x)
    /\ IF IsDeleted(x) THEN PanicDeleted("ObjDir", x, <<>>)
       ELSE LET r == glp_get_obj_dir(E(x))
            IN  Engine("ObjDir", x, <<>>, <<"glp_get_obj_dir">>, r, <<r.ret>>)

NumRows(x) ==
    /\ Holds(x)
    /\ IF IsDeleted(x) THEN PanicDeleted("NumRows", x, <<>>)
       ELSE LET r == glp_get_num_rows(E(x))
            IN  Engine("NumRows", x, <<>>, <<"glp_get_num_rows">>, r, <<GoInt(r.ret)>>)

NumCols(x) ==
    /\ Holds(x)
    /\ IF IsDeleted(x) THEN PanicDeleted("NumCols", x, <<>>)
       ELSE LET r == glp_get_num_cols(E(x))
            IN  Engine("NumCols", x, <<>>, <<"glp_get_num_cols">>, r, <<GoInt(r.ret)>>)

RowName(x, i) ==
    /\ Holds(x)
    /\ IF IsDeleted(x) THEN PanicDeleted("RowName", x, <<i>>)
       ELSE LET r == glp_get_row_name(E(x), CInt(i))
            IN  Engine("RowName", x, <<i>>, <<"glp_get_row_name">>, r, <<GoString(r.ret)>>)

ColName(x, j) ==
    /\ Holds(x)
    /\ IF IsDeleted(x) THEN PanicDeleted("ColName", x, <<j>>)
       ELSE LET r == glp_get_col_name(E(x), CInt(j))
            IN  Engine("ColName", x, <<j>>, <<"glp_get_col_name">>, r, <<GoString(r.ret)>>)

ObjCoef(x, j) ==
    /\ Holds(x)
    /\ IF IsDeleted(x) THEN PanicDeleted("ObjCoef", x, <<j>>)
       ELSE LET r == glp_get_obj_coef(E(x), CInt(j))
            IN  Engine("ObjCoef", x, <<j>>, <<"glp_get_obj_coef">>, r, <<r.ret>>)

\* The slices MatRow and MatCol make for a list of length elements and
\* let the engine fill from slot 1 on.
Slices(l) ==
    LET length == Len(l)
        ind == [k \in 1..(length + 1) |-> IF k = 1 THEN Make(1)[1] ELSE l[k - 1][1]]
        val == [k \in 1..(length + 1) |-> IF k = 1 THEN Make(1)[1] ELSE l[k - 1][2]]
    IN  <<ind, val>>

\* MatRow without the check of the handle.
MatRow_NoNilCheck(x, i) ==
    /\ Holds(x)
    /\ Engine("MatRow", x, <<i>>, <<"glp_get_mat_row", "glp_get_mat_row">>,
              glp_get_mat_row(E(x), CInt(i)),
              Slices(glp_get_mat_row(E(x), CInt(i)).ret))

\* MatRow: one engine call for the length, one to fill the two new slices.
\* The named results ind and val are still nil at the length check.
MatRow(x, i) ==
    /\ Holds(x)
    /\ IF IsDeleted(x) THEN PanicDeleted("MatRow", x, <<i>>)
       ELSE IF Len(<<>>) # Len(<<>>) THEN PanicLength("MatRow", x, <<i>>)
       ELSE LET r == glp_get_mat_row(E(x), CInt(i))
            IN  Engine("MatRow", x, <<i>>, <<"glp_get_mat_row", "glp_get_mat_row">>,
                       r, Slices(r.ret))

MatCol(x, j) ==
    /\ Holds(x)
    /\ IF IsDeleted(x) THEN PanicDeleted("MatCol", x, <<j>>)
       ELSE IF Len(<<>>) # Len(<<>>) THEN PanicLength("MatCol", x, <<j>>)
       ELSE LET r == glp_get_mat_col(E(x), CInt(j))
            IN  Engine("MatCol", x, <<j>>, <<"glp_get_mat_col", "glp_get_mat_col">>,
                       r, Slices(r.ret))

\* The error Simplex and Exact return for the engine's code: nil for 0.
OptError(code) == IF code = 0 THEN <<"nil">> ELSE <<"OptError", code>>

\* The constants of type OptError.
OptErrors ==
    {EBADB, ESING, ECOND, EBOUND, EFAIL, EOBJLL, EOBJUL, EITLIM, ETMLIM, ENOPFS,
     ENODFS, EROOT, ESTOP, EMIPGAP, ENOFEAS, ENOCVG, EINSTAB, EDATA, ERANGE}

\* Error without its case for ETMLIM.
Error_NoTimeLimit(r) ==
    CASE r = EBADB -> "invalid basis"
      [] r = ESING -> "singular matrix"
      [] r = ECOND -> "ill-conditioned matrix"
      [] r = EBOUND -> "invalid bounds"
      [] r = EFAIL -> "solver failed"
      [] r = EOBJLL -> "objective lower limit reached"
      [] r = EOBJUL -> "objective upper limit reached"
      [] r = EITLIM -> "iteration limit exceeded"
      [] r = ENOPFS -> "no primal feasible solution"
      [] r = ENODFS -> "no dual feasible solution"
      [] r = EROOT -> "root LP optimum not provided"
      [] r = ESTOP -> "search terminated by application"
      [] r = EMIPGAP -> "relative mip gap tolerance reached"
      [] r = ENOFEAS -> "no primal/dual feasible solution"
      [] r = ENOCVG -> "no convergence"
      [] r = EINSTAB -> "numerical instability"
      [] r = EDATA -> "invalid data"
      [] r = ERANGE -> "result out of range"
      [] OTHER -> "unknown error"

\* OptError.Error: the text of error r.
Error(r) ==
    CASE r = EBADB -> "invalid basis"
      [] r = ESING -> "singular matrix"
      [] r = ECOND -> "ill-conditioned matrix"
      [] r = EBOUND -> "invalid bounds"
      [] r = EFAIL -> "solver failed"
      [] r = EOBJLL -> "objective lower limit reached"
      [] r = EOBJUL -> "objective upper limit reached"
      [] r = EITLIM -> "iteration limit exceeded"
      [] r = ETMLIM -> "time limit exceeded"
      [] r = ENOPFS -> "no primal feasible solution"
      [] r = ENODFS -> "no dual feasible solution"
      [] r = EROOT -> "root LP optimum not provided"
      [] r = ESTOP -> "search terminated by application"
      [] r = EMIPGAP -> "relative mip gap tolerance reached"
      [] r = ENOFEAS -> "no primal/dual feasible solution"
      [] r = ENOCVG -> "no convergence"
      [] r = EINSTAB -> "numerical instability"
      [] r = EDATA -> "invalid data"
      [] r = ERANGE -> "result out of range"
      [] OTHER -> "unknown error"

\* Simplex returning its OptError variable whatever its value.
Simplex_TypedNil(x, parm, o) ==
    /\ Holds(x)
    /\ IF IsDeleted(x) THEN PanicDeleted("Simplex", x, <<parm>>)
       ELSE LET r == glp_simplex(E(x), parm, o)
            IN  Engine("Simplex", x, <<parm>>, <<"glp_simplex">>, r, <<"OptError", r.ret>>)

\* Simplex: parm is nil or points to an Smcp; the engine ends with outcome o.
Simplex(x, parm, o) ==
    /\ Holds(x)
    /\ IF IsDeleted(x) THEN PanicDeleted("Simplex", x, <<parm>>)
       ELSE LET r == glp_simplex(E(x), parm, o)
            IN  Engine("Simplex", x, <<parm>>, <<"glp_simplex">>, r, OptError(r.ret))

\* Exact solving a problem it first erased.
Exact_Erases(x, parm, o) ==
    /\ Holds(x)
    /\ IF IsDeleted(x) THEN PanicDeleted("Exact", x, <<parm>>)
       ELSE LET r == glp_exact(glp_erase_prob(E(x)).e, parm, o)
            IN  Engine("Exact", x, <<parm>>, <<"glp_exact">>, r, OptError(r.ret))

Exact(x, parm, o) ==
    /\ Holds(x)
    /\ IF IsDeleted(x) THEN PanicDeleted("Exact", x, <<parm>>)
       ELSE LET r == glp_exact(E(x), parm, o)
            IN  Engine("Exact", x, <<parm>>, <<"glp_exact">>, r, OptError(r.ret))

\* Simplex up to its engine call: the nil check passed and the handle
\* p.p.p was read as the call's argument.  Nothing keeps p reachable from
\* here on.
SimplexEnter(x, parm) ==
    /\ Holds(x)
    /\ run = NoCall
    /\ IF IsDeleted(x) THEN PanicDeleted("Simplex", x, <<parm>>)
       ELSE /\ run' = [op |-> "Simplex", x |-> x, h |-> probs[x].p, parm |-> parm]
            /\ last' = Call("Simplex", x, <<parm>>, "running", <<>>, <<"glp_simplex">>, 0)
            /\ UNCHANGED <<probs, eng, alive, fault, trans, wksp>>

\* The engine call of Simplex ends with outcome o and Simplex returns.  On
\* an object released in the meantime the engine's behaviour is not
\* defined: the process ends, or the call returns some code.
SimplexReturn(o) ==
    /\ alive
    /\ run # NoCall
    /\ run' = NoCall
    /\ IF ~eng[run.h].live
       THEN /\ fault' = "freed_handle"
            /\ \E crash \in BOOLEAN :
                  IF crash
                  THEN /\ alive' = FALSE
                       /\ last' = Call("Simplex", run.x, <<run.parm>>, "fault", <<>>,
                                       <<"glp_simplex">>, 0)
                  ELSE /\ alive' = alive
                       /\ last' = Call("Simplex", run.x, <<run.parm>>, "ok",
                                       OptError(o.code), <<"glp_simplex">>, o.code)
            /\ UNCHANGED <<probs, eng, trans, wksp>>
       ELSE LET r == glp_simplex(eng[run.h], run.parm, o)
            IN  IF ~r.ok
                THEN /\ alive' = FALSE
                     /\ last' = Call("Simplex", run.x, <<run.parm>>, "abort", <<>>,
                                     <<"glp_simplex">>, 0)
                     /\ UNCHANGED <<probs, eng, fault, trans, wksp>>
                ELSE /\ eng' = [eng EXCEPT ![run.h] = r.e]
                     /\ last' = Call("Simplex", run.x, <<run.parm>>, "ok",
                                     OptError(r.ret), <<"glp_simplex">>, r.ret)
                     /\ UNCHANGED <<probs, alive, fault, trans, wksp>>

Status(x) ==
    /\ Holds(x)
    /\ IF IsDeleted(x) THEN PanicDeleted("Status", x, <<>>)
       ELSE Engine("Status", x, <<>>, <<"glp_get_status">>,
                   R(E(x), 0), <<glp_get_status(E(x))>>)

PrimStat(x) ==
    /\ Holds(x)
    /\ IF IsDeleted(x) THEN PanicDeleted("PrimStat", x, <<>>)
       ELSE LET r == glp_get_prim_stat(E(x))
            IN  Engine("PrimStat", x, <<>>, <<"glp_get_prim_stat">>, r, <<r.ret>>)

DualStat(x) ==
    /\ Holds(x)
    /\ IF IsDeleted(x) THEN PanicDeleted("DualStat", x, <<>>)
       ELSE LET r == glp_get_dual_stat(E(x))
            IN  Engine("DualStat", x, <<>>, <<"glp_get_dual_stat">>, r, <<r.ret>>)

ObjVal(x) ==
    /\ Holds(x)
    /\ IF IsDeleted(x) THEN PanicDeleted("ObjVal", x, <<>>)
       ELSE LET r == glp_get_obj_val(E(x))
            IN  Engine("ObjVal", x, <<>>, <<"glp_get_obj_val">>, r, <<r.ret>>)

ColPrim(x, j) ==
    /\ Holds(x)
    /\ IF IsDeleted(x) THEN PanicDeleted("ColPrim", x, <<j>>)
       ELSE LET r == glp_get_col_prim(E(x), CInt(j))
            IN  Engine("ColPrim", x, <<j>>, <<"glp_get_col_prim">>, r, <<r.ret>>)

-----------------------------------------------------------------------------
(* The model translator.  trans[y] is the y-th Tran made by NewMpl: t is    *)
(* the native workspace handle t.t.t (NIL once released), fin and ref as    *)
(* for a Prob.  wksp[h] is the engine's workspace behind handle h; its      *)
(* phase is 0 when allocated, 1 with the model read, 2 with model and data  *)
(* read, 3 with the model generated and 4 after a failed step.  A file is   *)
(* known by its name: "diet.mod" holds a model and its data, "diet.dat"     *)
(* holds data, and "missing.mod" cannot be read.                            *)

\* glp_mpl_alloc_wksp: a new workspace.
EmptyWksp == [live |-> TRUE, frees |-> 0, phase |-> 0]

ModelFiles == {"diet.mod", "missing.mod"}

DataFiles == {"diet.dat"}

\* glp_mpl_read_model: 0 if the model was read and 1 if not.
glp_mpl_read_model(w, fname, skip) ==
    IF w.phase # 0 THEN X(w)
    ELSE IF fname = "missing.mod" THEN R([w EXCEPT !.phase = 4], 1)
    ELSE R([w EXCEPT !.phase = IF fname = "diet.mod" /\ skip = 0 THEN 2 ELSE 1], 0)

\* glp_mpl_read_data: 0 if the data were read and 1 if not.
glp_mpl_read_data(w, fname) ==
    IF w.phase \notin {1, 2} THEN X(w)
    ELSE IF fname = "missing.mod" \/ w.phase = 2 THEN R([w EXCEPT !.phase = 4], 1)
    ELSE R([w EXCEPT !.phase = 2], 0)

\* glp_mpl_generate: 0 if the model was generated (done) and 1 if not.
glp_mpl_generate(w, done) ==
    IF w.phase \notin {1, 2} THEN X(w)
    ELSE IF done THEN R([w EXCEPT !.phase = 3], 0)
    ELSE R([w EXCEPT !.phase = 4], 1)

\* glp_mpl_build_prob: the problem object e is erased and then given the
\* generated model: here one named row and one named column with one
\* matrix element.
glp_mpl_build_prob(w, e) ==
    IF w.phase # 3 THEN X(e)
    ELSE LET a == glp_erase_prob(e).e
             b == glp_set_prob_name(a, CString(<<100>>)).e
             c == glp_add_rows(b, 1).e
             d == glp_set_row_name(c, 1, CString(<<114>>)).e
             f == glp_add_cols(d, 1).e
             g == glp_set_col_name(f, 1, CString(<<99>>)).e
         IN  R(glp_set_mat_row(g, 1, 1, <<0, 1>>, <<0, 1>>).e, 0)

\* glp_mpl_free_wksp: the workspace's memory is released.
glp_mpl_free_wksp(w) ==
    R([w EXCEPT !.live = FALSE, !.frees = IF w.frees < 2 THEN w.frees + 1 ELSE 2], 0)

\* The program holds Tran y and may call its methods.
HoldsTran(y) == alive /\ y \in 1..Len(trans) /\ trans[y].ref

\* The engine is handed a nil or released handle: what it does then is not
\* defined.  The process ends, or the call returns some code.
Undefined(op, y, args, calls, kind) ==
    /\ fault' = kind
    /\ \E crash \in BOOLEAN, code \in {0, 1} :
          IF crash
          THEN /\ alive' = FALSE
               /\ last' = Call(op, y, args, "fault", <<>>, calls, 0)
          ELSE /\ alive' = alive
               /\ last' = Call(op, y, args, "ok", <<GoInt(code)>>, calls, code)
    /\ UNCHANGED <<probs, eng, trans, wksp, run>>

\* A method of Tran whose engine call on the workspace of y ended with r.
TranEngine(op, y, args, calls, r, ret) ==
    IF trans[y].t = NIL
    THEN Undefined(op, y, args, calls, "nil_handle")
    ELSE IF ~r.ok
    THEN /\ alive' = FALSE
         /\ last' = Call(op, y, args, "abort", <<>>, calls, 0)
         /\ UNCHANGED <<probs, eng, fault, trans, wksp, run>>
    ELSE /\ wksp' = [wksp EXCEPT ![trans[y].t] = r.e]
         /\ last' = Call(op, y, args, "ok", ret, calls, r.ret)
         /\ UNCHANGED <<probs, eng, alive, fault, trans, run>>

\* NewMpl: a fresh workspace behind a Tran with a finalizer.
NewMpl ==
    /\ alive
    /\ Len(trans) < MaxTrans
    /\ wksp' = Append(wksp, EmptyWksp)
    /\ trans' = Append(trans, [t |-> Len(wksp) + 1, fin |-> "set", ref |-> TRUE])
    /\ last' = Call("NewMpl", Len(trans) + 1, <<>>, "ok", <<>>, <<"glp_mpl_alloc_wksp">>, 0)
    /\ UNCHANGED <<probs, eng, alive, fault, run>>

\* The release both MplFreeWksp and finalizeTran do.
ReleaseTran(y) ==
    IF trans[y].t # NIL
    THEN wksp' = [wksp EXCEPT ![trans[y].t] = glp_mpl_free_wksp(wksp[trans[y].t]).e]
    ELSE UNCHANGED wksp

MplFreeWksp(y) ==
    /\ HoldsTran(y)
    /\ ReleaseTran(y)
    /\ trans' = [trans EXCEPT ![y].t = NIL]
    /\ last' = Call("MplFreeWksp", y, <<>>, "ok", <<>>,
                    IF trans[y].t # NIL THEN <<"glp_mpl_free_wksp">> ELSE <<>>, 0)
    /\ UNCHANGED <<probs, eng, alive, fault, run>>

\* The program lets go of its last reference to Tran y.
DropTran(y) ==
    /\ HoldsTran(y)
    /\ trans' = [trans EXCEPT ![y].ref = FALSE]
    /\ last' = Call("DropTran", y, <<>>, "ok", <<>>, <<>>, 0)
    /\ UNCHANGED <<probs, eng, alive, fault, wksp, run>>

\* finalizeTran, run by the garbage collector on an unreachable tran.
finalizeTran(y) ==
    /\ alive
    /\ y \in 1..Len(trans)
    /\ ~trans[y].ref
    /\ trans[y].fin = "set"
    /\ ReleaseTran(y)
    /\ trans' = [trans EXCEPT ![y].t = NIL, ![y].fin = "ran"]
    /\ last' = Call("finalizeTran", y, <<>>, "ok", <<>>,
                    IF trans[y].t # NIL THEN <<"glp_mpl_free_wksp">> ELSE <<>>, 0)
    /\ UNCHANGED <<probs, eng, alive, fault, run>>

\* MplReadModel: the handle goes to the engine as it is; the engine's code
\* is returned as an int.
MplReadModel(y, filename, skipDataFlag) ==
    /\ HoldsTran(y)
    /\ LET skip == IF skipDataFlag = TRUE THEN 1 ELSE 0
           r == glp_mpl_read_model(wksp[trans[y].t], filename, skip)
       IN  TranEngine("MplReadModel", y, <<filename, skipDataFlag>>,
                      <<"glp_mpl_read_model">>, r, <<GoInt(r.ret)>>)

MplGenerate(y, done) ==
    /\ HoldsTran(y)
    /\ LET r == glp_mpl_generate(wksp[trans[y].t], done)
       IN  TranEngine("MplGenerate", y, <<>>, <<"glp_mpl_generate">>, r, <<GoInt(r.ret)>>)

MplReadData(y, filename) ==
    /\ HoldsTran(y)
    /\ LET r == glp_mpl_read_data(wksp[trans[y].t], filename)
       IN  TranEngine("MplReadData", y, <<filename>>, <<"glp_mpl_read_data">>,
                      r, <<GoInt(r.ret)>>)

\* MplBuildProb: both handles go to the engine as they are.
MplBuildProb(y, x) ==
    /\ HoldsTran(y)
    /\ Holds(x)
    /\ IF trans[y].t = NIL \/ probs[x].p = NIL
       THEN Undefined("MplBuildProb", y, <<x>>, <<"glp_mpl_build_prob">>, "nil_handle")
       ELSE LET r == glp_mpl_build_prob(wksp[trans[y].t], E(x))
            IN  IF ~r.ok
                THEN /\ alive' = FALSE
                     /\ last' = Call("MplBuildProb", y, <<x>>, "abort", <<>>,
                                     <<"glp_mpl_build_prob">>, 0)
                     /\ UNCHANGED <<probs, eng, fault, trans, wksp, run>>
                ELSE /\ eng' = [eng EXCEPT ![probs[x].p] = r.e]
                     /\ last' = Call("MplBuildProb", y, <<x>>, "ok", <<>>,
                                     <<"glp_mpl_build_prob">>, 0)
                     /\ UNCHANGED <<probs, alive, fault, trans, wksp, run>>

-----------------------------------------------------------------------------
(* The program: any caller of the package.  Each specification below lets   *)
(* the caller use the methods of one area on live problems, with arguments  *)
(* drawn from a small set that holds the valid and the invalid shapes.      *)

ProbIds == 1..MaxProbs

One == G(0, 1)
Two == G(0, 2)

\* The state after lp := New().
InitOne ==
    /\ probs = <<[p |-> 1, fin |-> "set", ref |-> TRUE]>>
    /\ eng = <<EmptyProb>>
    /\ alive = TRUE
    /\ fault = "none"
    /\ last = Call("New", 1, <<>>, "ok", <<>>, <<"glp_create_prob">>, 0)
    /\ NoRest

\* Counts for AddRows and AddCols: 0, 1, 2, -1, 2^32 + 1, 100000001.
Counts == {G(0, 0), One, Two, G(0, -1), G(1, 1), G(0, 100000001)}

\* Row and column numbers: out of range where the problem has fewer lines.
Indices == {One, Two}

\* Index and value slices for SetMatRow and SetMatCol.
Vectors ==
    {<<<<0, 1>>, <<0, 1>>>>,
     <<<<0, 1, 2>>, <<0, 1, 2>>>>,
     <<<<7, 2, 1>>, <<9, 2, 1>>>>,
     <<<<0, 1, 2>>, <<0, 0, 2>>>>,
     <<<<0, 1, 1>>, <<0, 1, 2>>>>,
     <<<<0>>, <<0>>>>,
     <<<<>>, <<>>>>,
     <<<<0, 1>>, <<0>>>>,
     <<<<0>>, <<0, 1>>>>}

\* Row, column and value slices for LoadMatrix.
Loads ==
    {<<<<0, 1, 1, 2>>, <<0, 1, 2, 1>>, <<0, 1, 2, 1>>>>,
     <<<<0, 2, 1>>, <<0, 2, 2>>, <<0, 2, 1>>>>,
     <<<<0, 1, 2>>, <<0, 1, 2>>, <<0, 0, 1>>>>,
     <<<<0, 1, 1>>, <<0, 2, 2>>, <<0, 1, 2>>>>,
     <<<<0>>, <<0>>, <<0>>>>,
     <<<<>>, <<>>, <<>>>>,
     <<<<0, 1>>, <<0, 1>>, <<0>>>>,
     <<<<0, 1>>, <<0>>, <<0, 1>>>>}

\* One problem, its rows and columns and its constraint matrix.
NextMatrix ==
    \E x \in {1} :
       \/ \E n \in Counts : AddRows(x, n)
       \/ \E n \in Counts : AddCols(x, n)
       \/ \E i \in Indices, v \in Vectors : SetMatRow(x, i, v[1], v[2])
       \/ \E j \in Indices, v \in Vectors : SetMatCol(x, j, v[1], v[2])
       \/ \E l \in Loads : LoadMatrix(x, l[1], l[2], l[3])
       \/ \E i \in Indices : MatRow(x, i)
       \/ \E j \in Indices : MatCol(x, j)
       \/ NumRows(x)
       \/ NumCols(x)
       \/ Delete(x)

SpecMatrix == InitOne /\ [][NextMatrix]_vars

\* Every other method, called on a deleted problem.
OnDeleted(x) ==
    \/ SetObjName(x, <<97>>)
    \/ SetObjDir(x, MAX)
    \/ AddCols(x, One)
    \/ SetRowName(x, One, <<97>>)
    \/ SetColName(x, One, <<97>>)
    \/ SetRowBnds(x, One, LO, 0, 0)
    \/ SetColBnds(x, One, LO, 0, 0)
    \/ SetObjCoef(x, One, 1)
    \/ SetMatRow(x, One, <<0, 1>>, <<0, 1>>)
    \/ SetMatCol(x, One, <<0, 1>>, <<0>>)
    \/ LoadMatrix(x, <<0, 1>>, <<0, 1>>, <<0, 1>>)
    \/ ProbName(x)
    \/ NumRows(x)
    \/ ObjName(x)
    \/ ObjDir(x)
    \/ NumCols(x)
    \/ RowName(x, One)
    \/ ColName(x, One)
    \/ ObjCoef(x, One)
    \/ MatRow(x, One)
    \/ MatCol(x, One)
    \/ \E o \in SimplexOutcomes : Simplex(x, "nil", o)
    \/ \E o \in ExactOutcomes : Exact(x, "smcp", o)
    \/ Status(x)
    \/ PrimStat(x)
    \/ DualStat(x)
    \/ ObjVal(x)
    \/ ColPrim(x, One)

\* The life of problems: made by New and Copy, used, deleted, dropped and
\* finalized; every method is called on deleted problems.
Next ==
    \/ New
    \/ \E x \in ProbIds :
          \/ Delete(x)
          \/ Drop(x)
          \/ finalizeProb(x)
          \/ \E names \in BOOLEAN : Copy(x, names)
          \/ Erase(x)
          \/ SetProbName(x, <<97>>)
          \/ AddRows(x, One)
    \/ \E x \in ProbIds : Holds(x) /\ IsDeleted(x) /\ OnDeleted(x)

Spec == Init /\ [][Next]_vars

\* Names: two plain ones, the empty one, one with a NUL byte inside and one
\* with a control character.
Names == {<<97>>, <<98>>, <<>>, <<97, 0, 98>>, <<10>>}

\* One problem and its four kinds of names.
NextNames ==
    \E x \in {1} :
       \/ AddRows(x, One)
       \/ AddCols(x, One)
       \/ \E name \in Names : SetProbName(x, name)
       \/ \E name \in Names : SetObjName(x, name)
       \/ \E i \in Indices, name \in Names : SetRowName(x, i, name)
       \/ \E j \in Indices, name \in Names : SetColName(x, j, name)
       \/ ProbName(x)
       \/ ObjName(x)
       \/ \E i \in Indices : RowName(x, i)
       \/ \E j \in Indices : ColName(x, j)
       \/ Delete(x)

SpecNames == InitOne /\ [][NextNames]_vars

\* Problems a program has built before it copies them: the empty one, and
\* two with one row, two columns, names, bounds and a matrix, the second
\* filled column by column so that its row list runs the other way.
Named ==
    LET a == glp_add_rows(EmptyProb, 1).e
        b == glp_add_cols(a, 2).e
        c == glp_set_prob_name(b, CString(<<97>>)).e
        d == glp_set_obj_name(c, CString(<<98>>)).e
        f == glp_set_row_name(d, 1, CString(<<114>>)).e
        g == glp_set_col_name(f, 2, CString(<<99>>)).e
        h == glp_set_obj_dir(g, MAX).e
    IN  glp_set_obj_coef(h, 1, 3).e

Sources ==
    {EmptyProb,
     glp_set_mat_row(Named, 1, 2, <<0, 1, 2>>, <<0, 1, 2>>).e,
     glp_set_mat_col(glp_set_mat_col(Named, 2, 1, <<0, 1>>, <<0, 2>>).e,
                     1, 1, <<0, 1>>, <<0, 1>>).e}

InitCopy ==
    /\ \E s \in Sources : eng = <<s>>
    /\ probs = <<[p |-> 1, fin |-> "set", ref |-> TRUE]>>
    /\ alive = TRUE
    /\ fault = "none"
    /\ last = Call("init", 0, <<>>, "ok", <<>>, <<>>, 0)
    /\ NoRest

\* Copies of a built problem, and calls on the original and the copies.
NextCopy ==
    \E x \in ProbIds :
       \/ \E names \in BOOLEAN : Copy(x, names)
       \/ SetProbName(x, <<100>>)
       \/ AddRows(x, One)
       \/ SetMatRow(x, One, <<0, 1>>, <<0, 5>>)
       \/ ProbName(x)
       \/ NumRows(x)
       \/ MatRow(x, One)
       \/ Delete(x)

SpecCopy == InitCopy /\ [][NextCopy]_vars

\* One problem, its objective and bounds, and the two solvers.
NextSolve ==
    \E x \in {1} :
       \/ AddRows(x, One)
       \/ AddCols(x, One)
       \/ \E dir \in {MIN, MAX} : SetObjDir(x, dir)
       \/ SetRowBnds(x, One, UP, 0, 4)
       \/ SetColBnds(x, One, LO, 0, 0)
       \/ SetObjCoef(x, One, 1)
       \/ \E parm \in Parms, o \in SimplexOutcomes : Simplex(x, parm, o)
       \/ \E parm \in Parms, o \in ExactOutcomes : Exact(x, parm, o)
       \/ Status(x)
       \/ PrimStat(x)
       \/ DualStat(x)
       \/ ObjVal(x)
       \/ ColPrim(x, One)
       \/ ObjDir(x)
       \/ ObjCoef(x, One)
       \/ Delete(x)

SpecSolve == InitOne /\ [][NextSolve]_vars

\* One problem that is filled, solved, erased, deleted and finalized.
NextErase ==
    \E x \in {1} :
       \/ AddRows(x, One)
       \/ AddCols(x, One)
       \/ SetProbName(x, <<97>>)
       \/ SetRowName(x, One, <<114>>)
       \/ SetObjDir(x, MAX)
       \/ SetMatRow(x, One, <<0, 1>>, <<0, 5>>)
       \/ \E o \in SimplexOutcomes : Simplex(x, "nil", o)
       \/ Erase(x)
       \/ NumRows(x)
       \/ NumCols(x)
       \/ ProbName(x)
       \/ MatRow(x, One)
       \/ Delete(x)
       \/ Drop(x)
       \/ finalizeProb(x)

SpecErase == InitOne /\ [][NextErase]_vars

\* A program that translates models into its problem, as TestLoadingMplLPs
\* does, next to its own row and column additions.  It keeps one translator
\* at a time.
TranIds == 1..MaxTrans

NextMpl ==
    \/ (\A y \in 1..Len(trans) : ~trans[y].ref) /\ NewMpl
    \/ \E y \in TranIds :
          \/ MplReadModel(y, "diet.mod", FALSE)
          \/ MplGenerate(y, TRUE)
          \/ MplBuildProb(y, 1)
          \/ DropTran(y)
    \/ \E x \in {1} :
          \/ AddRows(x, One)
          \/ AddCols(x, One)
          \/ SetMatRow(x, One, <<0, 1>>, <<0, 5>>)
          \/ Simplex(x, "nil", Outcome(0, FEAS, FEAS, 1))
          \/ Exact(x, "nil", Outcome(0, FEAS, FEAS, 1))
          \/ Erase(x)
          \/ Delete(x)

SpecMpl == InitOne /\ [][NextMpl]_vars

\* A program that takes a translator through its steps in any order, with
\* files that can and cannot be read, and lets go of it with or without
\* MplFreeWksp.
NextTran ==
    \/ (\A y \in 1..Len(trans) : ~trans[y].ref) /\ NewMpl
    \/ \E y \in TranIds :
          \/ \E f \in ModelFiles, skip \in BOOLEAN : MplReadModel(y, f, skip)
          \/ \E f \in DataFiles : MplReadData(y, f)
          \/ \E done \in BOOLEAN : MplGenerate(y, done)
          \/ MplBuildProb(y, 1)
          \/ MplFreeWksp(y)
          \/ DropTran(y)
          \/ finalizeTran(y)
    \/ \E x \in {1} :
          \/ AddRows(x, One)
          \/ NumRows(x)
          \/ Delete(x)

SpecTran == InitOne /\ [][NextTran]_vars

\* A program that solves and translates, the engine ending each call with
\* any code the call can return.
NextCodes ==
    \/ (\A y \in 1..Len(trans) : ~trans[y].ref) /\ NewMpl
    \/ \E y \in TranIds :
          \/ \E f \in ModelFiles, skip \in BOOLEAN : MplReadModel(y, f, skip)
          \/ \E f \in DataFiles : MplReadData(y, f)
          \/ \E done \in BOOLEAN : MplGenerate(y, done)
          \/ MplBuildProb(y, 1)
          \/ DropTran(y)
    \/ \E x \in {1} :
          \/ AddRows(x, One)
          \/ AddCols(x, One)
          \/ \E c \in SimplexCodes : Simplex(x, "nil", Failed(c))
          \/ \E c \in ExactCodes : Exact(x, "smcp", Failed(c))
          \/ Simplex(x, "smcp", Outcome(0, FEAS, FEAS, 1))

SpecCodes == InitOne /\ [][NextCodes]_vars

\* A program whose Simplex calls take time: between the start of the engine
\* call and its return the program calls nothing else, while the garbage
\* collector runs as it likes, and the call may be the program's last use
\* of the Prob.
NextRace ==
    \/ \E x \in {1} :
          \/ run = NoCall /\ AddRows(x, One)
          \/ run = NoCall /\ AddCols(x, One)
          \/ run = NoCall /\ Delete(x)
          \/ \E parm \in Parms : SimplexEnter(x, parm)
          \/ Drop(x)
          \/ finalizeProb(x)
    \/ \E o \in SimplexOutcomes : SimplexReturn(o)

SpecRace == InitOne /\ [][NextRace]_vars

-----------------------------------------------------------------------------
(* What a caller reads from a live problem. *)

NumRowsOf(x) == GoInt(glp_get_num_rows(E(x)).ret)
NumColsOf(x) == GoInt(glp_get_num_cols(E(x)).ret)

ProbNameOf(e) == GoString(glp_get_prob_name(e).ret)
ObjNameOf(e) == GoString(glp_get_obj_name(e).ret)
RowNameOf(e, i) == GoString(glp_get_row_name(e, i).ret)
ColNameOf(e, j) == GoString(glp_get_col_name(e, j).ret)

\* The index -> value pairs two result or argument slices denote: slot 0
\* is ignored and so is the order.
Entries(ind, val) == {<<ind[k], val[k]>> : k \in 2..Len(ind)}
NonZeroEntries(ind, val) == {p \in Entries(ind, val) : p[2] # 0}

\* What MatRow(i) and MatCol(j) return for the engine object e.
MatRowOf(e, i) == Slices(glp_get_mat_row(e, CInt(i)).ret)
MatColOf(e, j) == Slices(glp_get_mat_col(e, CInt(j)).ret)

\* The step is a call of op on a problem that was live when called.
OnLive(op) ==
    /\ last'.op = op
    /\ Holds(last'.x)
    /\ ~IsDeleted(last'.x)

-----------------------------------------------------------------------------
(* C3.  AddRows and AddCols. *)

\* A count the engine accepts for a problem that has k rows (columns).
ValidCount(n, k) == n.hi = 0 /\ n.lo >= 1 /\ n.lo <= 100000000 - k

\* AddRows(n) on x, which had r rows: it returned r + 1 and x has r + n
\* rows and the columns it had.
AddedRows(x, n) ==
    /\ last'.out = "ok"
    /\ NumRowsOf(x)' = GoAdd(NumRowsOf(x), n)
    /\ last'.ret = <<GoAdd(NumRowsOf(x), One)>>
    /\ NumColsOf(x)' = NumColsOf(x)

AddedCols(x, n) ==
    /\ last'.out = "ok"
    /\ NumColsOf(x)' = GoAdd(NumColsOf(x), n)
    /\ last'.ret = <<GoAdd(NumColsOf(x), One)>>
    /\ NumRowsOf(x)' = NumRowsOf(x)

NonNegative(n) == n.hi > 0 \/ (n.hi = 0 /\ n.lo >= 0)

-----------------------------------------------------------------------------
(* C4.  SetMatRow then MatRow, SetMatCol then MatCol. *)

\* Slices a set call accepts for a line whose indices range over 1..k.
ValidVector(ind, val, k) ==
    /\ Len(ind) = Len(val)
    /\ Len(ind) >= 1
    /\ \A q \in 2..Len(ind) : ind[q] \in 1..k
    /\ \A q1, q2 \in 2..Len(ind) : q1 # q2 => ind[q1] # ind[q2]

\* The get call that follows a set call of the same line returned the
\* entries in got.
SetThenGet(setOp, getOp) ==
    /\ last.op = setOp
    /\ last.out = "ok"
    /\ last'.op = getOp
    /\ last'.x = last.x
    /\ last'.args[1] = last.args[1]

\* C4, for the entries the engine keeps: on a live problem, SetMatRow(i, ind, val) with row i in
\* range and non-empty equal-length slices whose indices in slots 1..n are
\* unique and in range returns, and MatRow(i) after it returns the entries
\* that were set with a nonzero value, each once, and no other; likewise
\* SetMatCol and MatCol.
C4_SetGetNonZero ==
    [][/\ (/\ OnLive("SetMatRow")
           /\ CInt(last'.args[1]) \in 1..E(last'.x).m
           /\ ValidVector(last'.args[2], last'.args[3], E(last'.x).n)) =>
            last'.out = "ok"
       /\ (/\ OnLive("SetMatCol")
           /\ CInt(last'.args[1]) \in 1..E(last'.x).n
           /\ ValidVector(last'.args[2], last'.args[3], E(last'.x).m)) =>
            last'.out = "ok"
       /\ (SetThenGet("SetMatRow", "MatRow") \/ SetThenGet("SetMatCol", "MatCol")) =>
            /\ last'.out = "ok"
            /\ Entries(last'.ret[1], last'.ret[2]) =
                 NonZeroEntries(last.args[2], last.args[3])
            /\ Len(last'.ret[1]) = 1 + Cardinality(NonZeroEntries(last.args[2], last.args[3]))
            /\ Len(last'.ret[2]) = Len(last'.ret[1])]_vars

\* C4 for every entry: the get call returns every entry that was set, zero
\* values included.
C4_SetGetAll ==
    [][(SetThenGet("SetMatRow", "MatRow") \/ SetThenGet("SetMatCol", "MatCol")) =>
            /\ last'.out = "ok"
            /\ Entries(last'.ret[1], last'.ret[2]) = Entries(last.args[2], last.args[3])
            /\ Len(last'.ret[1]) = Len(last.args[2])
            /\ Len(last'.ret[2]) = Len(last.args[3])]_vars

\* MatRow returned two entries, in the engine's order.
C4_Witness ==
    /\ last.op = "MatRow"
    /\ last.out = "ok"
    /\ last.ret = <<<<0, 2, 1>>, <<0, 2, 1>>>>

-----------------------------------------------------------------------------
(* C5.  LoadMatrix. *)

\* The entries of line i among the triples: sel are the line numbers and
\* ind the numbers in the line.
Loaded(sel, ind, ar, i) == {<<ind[k], ar[k]>> : k \in {q \in 2..Len(sel) : sel[q] = i}}

\* Every row and every column of x reads as the entries in want.
MatrixIs(x, want(_, _)) ==
    /\ \A i \in 1..E(x).m :
          LET got == MatRowOf(E(x), GoInt(i))
          IN  Entries(got[1], got[2]) = want("row", i) /\ Len(got[1]) = Len(got[2])
    /\ \A j \in 1..E(x).n :
          LET got == MatColOf(E(x), GoInt(j))
          IN  Entries(got[1], got[2]) = want("col", j) /\ Len(got[1]) = Len(got[2])

\* C5, for the entries the engine keeps: after LoadMatrix(ia, ja, ar) has
\* returned, MatRow(i) is exactly the (ja[k], ar[k]) with ia[k] = i and
\* ar[k] nonzero, k >= 1, and
\* MatCol(j) exactly the (ia[k], ar[k]) with ja[k] = j and ar[k] nonzero;
\* nothing of the matrix before the call remains.
C5_LoadNonZero ==
    (last.op = "LoadMatrix" /\ last.out = "ok") =>
        MatrixIs(last.x,
                 LAMBDA kind, i :
                    {p \in (IF kind = "row"
                            THEN Loaded(last.args[1], last.args[2], last.args[3], i)
                            ELSE Loaded(last.args[2], last.args[1], last.args[3], i)) :
                       p[2] # 0})

\* C5 for every entry: every (ja[k], ar[k]) with ia[k] = i is in MatRow(i),
\* zero values included.
C5_LoadAll ==
    (last.op = "LoadMatrix" /\ last.out = "ok") =>
        MatrixIs(last.x,
                 LAMBDA kind, i :
                    IF kind = "row"
                    THEN Loaded(last.args[1], last.args[2], last.args[3], i)
                    ELSE Loaded(last.args[2], last.args[1], last.args[3], i))

\* LoadMatrix returned and left two elements in row 1 and two in column 1.
C5_Witness ==
    /\ last.op = "LoadMatrix"
    /\ last.out = "ok"
    /\ E(last.x).m >= 1
    /\ E(last.x).n >= 1
    /\ Len(E(last.x).rowl[1]) = 2
    /\ Len(E(last.x).coll[1]) = 2

-----------------------------------------------------------------------------
(* C10.  Slices of different lengths. *)

LengthMismatch(op, args) ==
    IF op = "LoadMatrix"
    THEN Len(args[1]) # Len(args[2]) \/ Len(args[1]) # Len(args[3])
    ELSE Len(args[2]) # Len(args[3])

\* C10: SetMatRow, SetMatCol and LoadMatrix called with slices of different
\* lengths panic with the length message, or with the deleted-problem
\* message on a deleted problem, call no engine function and change nothing.
C10_LengthPanic ==
    [][(/\ last'.op \in {"SetMatRow", "SetMatCol", "LoadMatrix"}
        /\ Holds(last'.x)
        /\ LengthMismatch(last'.op, last'.args)) =>
            /\ last'.out = (IF IsDeleted(last'.x) THEN "panic_deleted" ELSE "panic_length")
            /\ last'.calls = <<>>
            /\ UNCHANGED <<probs, eng, alive, fault>>]_vars

\* SetMatCol panicked over its lengths on a problem that has a matrix.
C10_Witness ==
    /\ last.op = "SetMatCol"
    /\ last.out = "panic_length"
    /\ E(last.x).rowl # <<>>
    /\ E(last.x).rowl[1] # <<>>

-----------------------------------------------------------------------------
(* C1.  Methods of a deleted problem. *)

\* The methods of Prob other than Delete.
Methods ==
    {"Erase", "SetProbName", "SetObjName", "SetObjDir", "AddRows", "AddCols",
     "SetRowName", "SetColName", "SetRowBnds", "SetColBnds", "SetObjCoef",
     "SetMatRow", "SetMatCol", "LoadMatrix", "Copy", "ProbName", "ObjName",
     "ObjDir", "NumRows", "NumCols", "RowName", "ColName", "ObjCoef", "MatRow",
     "MatCol", "Simplex", "Exact", "Status", "PrimStat", "DualStat", "ObjVal",
     "ColPrim"}

\* C1: every method other than Delete, called on a deleted problem, panics
\* with the deleted-problem message, calls no engine function and changes
\* nothing.
C1_DeletedPanics ==
    [][(/\ last'.op \in Methods
        /\ Holds(last'.x)
        /\ IsDeleted(last'.x)) =>
            /\ last'.out = "panic_deleted"
            /\ last'.calls = <<>>
            /\ last'.ret = <<>>
            /\ UNCHANGED <<probs, eng, alive, fault>>]_vars

\* MatRow panicked on a problem that Delete had released.
C1_Witness ==
    /\ last.op = "MatRow"
    /\ last.out = "panic_deleted"
    /\ probs[last.x].p = NIL
    /\ eng[last.x].frees = 1

-----------------------------------------------------------------------------
(* C2.  The release of the native handle. *)

\* The step is Delete or finalizeProb on x, whose handle was h: a handle
\* that is not nil is released by one engine call and set to nil, and a nil
\* handle makes the call do nothing.
ReleasedBy(x, h) ==
    /\ probs'[x].p = NIL
    /\ IF h # NIL
       THEN /\ last'.calls = <<"glp_delete_prob">>
            /\ eng[h].live
            /\ ~eng'[h].live
            /\ eng'[h].frees = 1
            /\ \A g \in 1..Len(eng) : g # h => eng'[g] = eng[g]
       ELSE /\ last'.calls = <<>>
            /\ eng' = eng

\* C2: no handle is released twice; the first Delete of a problem releases
\* its handle and a later Delete does nothing; the finalizer releases the
\* handle of a problem that was not deleted and does nothing otherwise.
C2_ReleasedOnce ==
    [][/\ \A h \in 1..Len(eng') : eng'[h].frees <= 1
       /\ fault' = "none"
       /\ last'.op \in {"Delete", "finalizeProb"} =>
             ReleasedBy(last'.x, probs[last'.x].p)]_vars

\* The finalizer ran on a problem that Delete had released before.
C2_Witness ==
    /\ last.op = "finalizeProb"
    /\ last.calls = <<>>
    /\ probs[last.x].fin = "ran"
    /\ eng[last.x].frees = 1

-----------------------------------------------------------------------------
(* C6.  What Copy copies. *)

\* Row i of d and of e hold the same index -> value mapping, and so do
\* column j of d and of e.
SameRow(d, e, i) ==
    LET a == MatRowOf(d, GoInt(i))
        b == MatRowOf(e, GoInt(i))
    IN  Entries(a[1], a[2]) = Entries(b[1], b[2]) /\ Len(a[1]) = Len(b[1])

SameCol(d, e, j) ==
    LET a == MatColOf(d, GoInt(j))
        b == MatColOf(e, GoInt(j))
    IN  Entries(a[1], a[2]) = Entries(b[1], b[2]) /\ Len(a[1]) = Len(b[1])

\* d has the names of e (all) or no name at all.
NamesCopied(d, e, all) ==
    /\ ProbNameOf(d) = (IF all THEN ProbNameOf(e) ELSE <<>>)
    /\ ObjNameOf(d) = (IF all THEN ObjNameOf(e) ELSE <<>>)
    /\ \A i \in 1..d.m : RowNameOf(d, i) = (IF all THEN RowNameOf(e, i) ELSE <<>>)
    /\ \A j \in 1..d.n : ColNameOf(d, j) = (IF all THEN ColNameOf(e, j) ELSE <<>>)

\* C6: the problem Copy(names) returns has the row and column counts of the
\* source and, row by row and column by column, its matrix content; with
\* names false every name of the copy is empty and with names true every
\* name equals the source's.
C6_CopyContent ==
    (last.op = "Copy" /\ last.out = "ok") =>
        LET e == E(last.x)
            d == E(last.ret[1])
        IN  /\ last.ret[1] # last.x
            /\ d.live
            /\ glp_get_num_rows(d).ret = glp_get_num_rows(e).ret
            /\ glp_get_num_cols(d).ret = glp_get_num_cols(e).ret
            /\ NamesCopied(d, e, last.args[1])
            /\ \A i \in 1..e.m : SameRow(d, e, i)
            /\ \A j \in 1..e.n : SameCol(d, e, j)

\* Copy(true) returned a named copy whose row list runs the other way.
C6_Witness ==
    /\ last.op = "Copy"
    /\ last.out = "ok"
    /\ last.args = <<TRUE>>
    /\ ProbNameOf(E(last.ret[1])) = <<97>>
    /\ E(last.x).m = 1
    /\ Len(E(last.x).rowl[1]) = 2
    /\ E(last.ret[1]).rowl[1] # E(last.x).rowl[1]

-----------------------------------------------------------------------------
(* C7.  A copy and its original are independent. *)

\* C7: a call on one problem, Delete included, leaves every other problem
\* as it was, and Copy leaves its source as it was; a problem that was not
\* deleted keeps a live engine object.
C7_CopyIndependent ==
    [][/\ \A y \in 1..Len(probs) :
             (last'.x # y \/ last'.op = "Copy") =>
                 /\ probs'[y] = probs[y]
                 /\ probs[y].p # NIL => eng'[probs[y].p] = eng[probs[y].p]
       /\ \A y \in 1..Len(probs') :
             probs'[y].p # NIL => eng'[probs'[y].p].live]_vars

\* The copy was renamed after its original had been deleted.
C7_Witness ==
    /\ last.op = "SetProbName"
    /\ last.out = "ok"
    /\ last.x = 2
    /\ probs[1].p = NIL
    /\ ProbNameOf(E(2)) = <<100>>
    /\ E(2).m >= 1

-----------------------------------------------------------------------------
(* C8.  Names. *)

\* A name the engine takes: no control character, so no NUL byte either.
ValidName(name) == \A k \in 1..Len(name) : name[k] >= 32 /\ name[k] # 127

\* Every name of e but those in the set skip, as a function.
NamesBut(e, skip) ==
    [k \in ({<<"prob", 0>>, <<"obj", 0>>}
            \cup {<<"row", i>> : i \in 1..e.m}
            \cup {<<"col", j>> : j \in 1..e.n}) \ skip |->
        CASE k[1] = "prob" -> ProbNameOf(e)
          [] k[1] = "obj" -> ObjNameOf(e)
          [] k[1] = "row" -> RowNameOf(e, k[2])
          [] OTHER -> ColNameOf(e, k[2])]

\* The set call op on x names the name slot k.
Sets(op, x, k) ==
    /\ OnLive(op)
    /\ last'.x = x
    /\ ValidName(last'.args[IF k[2] = 0 THEN 1 ELSE 2])
    /\ k[2] # 0 => last'.args[1] = GoInt(k[2])

\* After the set call, slot k reads as the name given and every other name
\* as before.
NameSet(x, k) ==
    /\ last'.out = "ok"
    /\ NamesBut(E(x), {})'[k] = last'.args[IF k[2] = 0 THEN 1 ELSE 2]
    /\ NamesBut(E(x), {k})' = NamesBut(E(x), {k})

\* The get call follows the set call of the same name slot with a valid
\* name.
GetAfterSet(setOp, getOp, indexed) ==
    /\ last.op = setOp
    /\ last.out = "ok"
    /\ last'.op = getOp
    /\ last'.x = last.x
    /\ indexed => last'.args[1] = last.args[1]
    /\ ValidName(last.args[IF indexed THEN 2 ELSE 1])

\* C8: on a live problem, setting the problem name, the objective name, the
\* name of an existing row or of an existing column to a valid name returns,
\* the get call then returns that name, whatever was set before, and every
\* other name reads as before; the names of a new problem and of new rows
\* and columns read as the empty string.
C8_NamesRoundTrip ==
    /\ [](last.op = "New" => /\ ProbNameOf(E(last.x)) = <<>>
                             /\ ObjNameOf(E(last.x)) = <<>>)
    /\ [][\A x \in 1..Len(probs) :
         /\ Sets("SetProbName", x, <<"prob", 0>>) => NameSet(x, <<"prob", 0>>)
         /\ Sets("SetObjName", x, <<"obj", 0>>) => NameSet(x, <<"obj", 0>>)
         /\ \A i \in 1..(IF IsDeleted(x) THEN 0 ELSE E(x).m) :
               Sets("SetRowName", x, <<"row", i>>) => NameSet(x, <<"row", i>>)
         /\ \A j \in 1..(IF IsDeleted(x) THEN 0 ELSE E(x).n) :
               Sets("SetColName", x, <<"col", j>>) => NameSet(x, <<"col", j>>)
         /\ (\/ GetAfterSet("SetProbName", "ProbName", FALSE)
             \/ GetAfterSet("SetObjName", "ObjName", FALSE)) =>
               last'.out = "ok" /\ last'.ret = <<last.args[1]>>
         /\ (\/ GetAfterSet("SetRowName", "RowName", TRUE)
             \/ GetAfterSet("SetColName", "ColName", TRUE)) =>
               last'.out = "ok" /\ last'.ret = <<last.args[2]>>
         /\ (OnLive("AddRows") /\ last'.x = x /\ last'.out = "ok") =>
               /\ \A i \in (E(x).m + 1)..(E(x).m)' : RowNameOf(E(x), i)' = <<>>
               /\ \A k \in DOMAIN NamesBut(E(x), {}) :
                     NamesBut(E(x), {})'[k] = NamesBut(E(x), {})[k]
         /\ (OnLive("AddCols") /\ last'.x = x /\ last'.out = "ok") =>
               /\ \A j \in (E(x).n + 1)..(E(x).n)' : ColNameOf(E(x), j)' = <<>>
               /\ \A k \in DOMAIN NamesBut(E(x), {}) :
                     NamesBut(E(x), {})'[k] = NamesBut(E(x), {})[k]]_vars

\* Row 1 was renamed from one valid name to another next to a named row 2.
C8_Witness ==
    /\ last.op = "SetRowName"
    /\ last.out = "ok"
    /\ last.args = <<One, <<98>>>>
    /\ E(last.x).m = 2
    /\ RowNameOf(E(last.x), 1) = <<98>>
    /\ RowNameOf(E(last.x), 2) = <<97>>
    /\ ProbNameOf(E(last.x)) = <<97>>

-----------------------------------------------------------------------------
(* C9.  The errors of Simplex and Exact. *)

\* C9: Simplex and Exact on a live problem never panic; called without
\* control parameters or with those NewSmcp made, the engine returns its
\* code and they return nil exactly for code 0 and otherwise the OptError of
\* that code, and the problem is live after the call.
C9_SolverError ==
    [][\A x \in 1..Len(probs) :
          ((OnLive("Simplex") \/ OnLive("Exact")) /\ last'.x = x) =>
             /\ last'.out \in {"ok", "abort"}
             /\ last'.args[1] \in {"nil", "smcp"} => last'.out = "ok"
             /\ last'.out = "ok" =>
                   /\ (last'.ret = <<"nil">>) <=> (last'.eret = 0)
                   /\ last'.eret # 0 => last'.ret = <<"OptError", last'.eret>>
                   /\ Holds(x)'
                   /\ ~IsDeleted(x)'
                   /\ E(x)'.live]_vars

\* Exact returned the error EBADB and Status then reads from the problem.
C9_Witness ==
    /\ last.op = "Exact"
    /\ last.out = "ok"
    /\ last.eret = EBADB
    /\ last.ret = <<"OptError", EBADB>>
    /\ E(last.x).live
    /\ E(last.x).n >= 1

-----------------------------------------------------------------------------
(* C11.  Erase. *)

\* C11: Erase on a live problem, whatever was done to it before, returns and
\* leaves the engine object as glp_create_prob makes it (no rows, no
\* columns, no names, no matrix) behind the same, live handle; AddRows right
\* after it returns 1; Delete of a live problem releases the handle, and no
\* handle is released twice; Erase on a deleted problem panics with the
\* deleted-problem message and changes nothing.
C11_EraseResets ==
    [][\A x \in 1..Len(probs) :
         /\ (OnLive("Erase") /\ last'.x = x) =>
               /\ last'.out = "ok"
               /\ last'.calls = <<"glp_erase_prob">>
               /\ probs' = probs
               /\ E(x)' = EmptyProb
               /\ NumRowsOf(x)' = G(0, 0)
               /\ NumColsOf(x)' = G(0, 0)
               /\ ProbNameOf(E(x))' = <<>>
         /\ (last'.op = "Erase" /\ last'.x = x /\ Holds(x) /\ IsDeleted(x)) =>
               /\ last'.out = "panic_deleted"
               /\ UNCHANGED <<probs, eng, alive, fault>>
         /\ (last.op = "Erase" /\ last.out = "ok" /\ OnLive("AddRows") /\ last'.x = x) =>
               last'.out = "ok" /\ last'.ret = <<One>>
         /\ (last'.op = "Delete" /\ last'.x = x /\ probs[x].p # NIL) =>
               /\ last'.calls = <<"glp_delete_prob">>
               /\ eng[probs[x].p].live
               /\ ~eng'[probs[x].p].live
         /\ \A h \in 1..Len(eng') : eng'[h].frees <= 1]_vars

\* Erase returned on a live problem, which reads as a new one.
C11_Witness ==
    /\ last.op = "Erase"
    /\ last.out = "ok"
    /\ probs[last.x].p # NIL
    /\ E(last.x) = EmptyProb

\* C12 as stated: across every operation other than Erase and Delete,
\* MplBuildProb into the problem included, the row and column counts of a
\* live problem never decrease.
C12_Original ==
    [][\A x \in 1..Len(probs) :
         (probs[x].p # NIL /\ probs'[x].p # NIL
            /\ last'.op \notin {"Erase", "Delete", "finalizeProb"}) =>
               /\ CInt(NumRowsOf(x))' >= CInt(NumRowsOf(x))
               /\ CInt(NumColsOf(x))' >= CInt(NumColsOf(x))]_vars

\* C12: across every operation other than Erase, Delete and MplBuildProb
\* (Simplex, Exact, the matrix setters and the translator's other steps
\* included) the row and column counts of a live problem never decrease,
\* and the counts are never negative.
C12_CountsOnlyGrow ==
    [][\A x \in 1..Len(probs) :
         (probs[x].p # NIL /\ probs'[x].p # NIL
            /\ last'.op \notin {"Erase", "Delete", "finalizeProb", "MplBuildProb"}) =>
               /\ CInt(NumRowsOf(x))' >= CInt(NumRowsOf(x))
               /\ CInt(NumColsOf(x))' >= CInt(NumColsOf(x))
               /\ CInt(NumRowsOf(x)) >= 0 /\ CInt(NumColsOf(x)) >= 0]_vars

\* Rows were added to a problem the translator built, and a solver has run
\* on it since.
C12_Witness ==
    /\ last.op \in {"Simplex", "Exact"} /\ last.out = "ok"
    /\ probs[last.x].p # NIL
    /\ ProbNameOf(E(last.x)) = <<100>>
    /\ E(last.x).m = 2

\* C13: every handle made by New or Copy is paired with a release: while
\* the process runs, a handle still allocated belongs to a Problem the
\* program can still Delete or to one whose finalizer is yet to run, so no
\* handle is left allocated with nothing to release it.
C13_HandlePairedWithRelease ==
    alive =>
       \A x \in 1..Len(probs) :
          (probs[x].p # NIL /\ eng[probs[x].p].live) =>
             (probs[x].ref \/ probs[x].fin = "set")

\* The steps of the translator that return the engine's code.
MplSteps == {"MplReadModel", "MplReadData", "MplGenerate"}

\* C14 as stated: every non-nil error of Simplex and Exact is a named
\* OptError, and no operation, the translator's steps included, returns the
\* engine's integer code as it is.
C14_Original ==
    /\ (last.op \in {"Simplex", "Exact"} /\ last.out = "ok" /\ last.eret # 0) =>
          /\ last.ret = OptError(last.eret)
          /\ Error(last.ret[2]) # "unknown error"
    /\ (last.op \in MplSteps /\ last.out = "ok") => last.ret # <<GoInt(last.eret)>>

\* C14: every non-nil error of Simplex and Exact is the engine's code as one
\* of the named OptError constants, whose Error text is never "unknown
\* error", and a call the engine ended with 0 returns nil; MplReadModel,
\* MplReadData and MplGenerate return the engine's integer code as a plain
\* int, 0 or 1 on a workspace that was not released.
C14_ErrorsNamed ==
    /\ (last.op \in {"Simplex", "Exact"} /\ last.out = "ok") =>
          /\ last.ret = OptError(last.eret)
          /\ last.eret = 0 => last.ret = <<"nil">>
          /\ last.eret # 0 =>
                /\ last.ret[1] = "OptError"
                /\ last.ret[2] \in OptErrors
                /\ Error(last.ret[2]) # "unknown error"
    /\ (last.op \in MplSteps /\ last.out = "ok") =>
          /\ last.ret = <<GoInt(last.eret)>>
          /\ fault = "none" => last.eret \in {0, 1}

\* Simplex ended by the time limit, on a problem the translator built whose
\* last step before had returned 0.
C14_Witness ==
    /\ last.op = "Simplex" /\ last.out = "ok"
    /\ last.ret = <<"OptError", ETMLIM>>
    /\ Error(last.ret[2]) = "time limit exceeded"
    /\ ProbNameOf(E(last.x)) = <<100>>

\* C15: a workspace is released at most once; MplReadModel, MplReadData,
\* MplGenerate and MplBuildProb on a Tran whose workspace was released, and
\* MplBuildProb given a deleted Problem, panic without calling the engine;
\* no nil or released handle ever reaches the engine.
C15_ReleasedHandleChecked ==
    /\ fault = "none"
    /\ \A h \in 1..Len(wksp) : wksp[h].frees <= 1
    /\ (last.op \in MplSteps \cup {"MplBuildProb"} /\ trans[last.x].t = NIL) =>
          last.out = "panic_deleted" /\ last.calls = <<>>
    /\ (last.op = "MplBuildProb" /\ probs[last.args[1]].p = NIL) =>
          last.out = "panic_deleted" /\ last.calls = <<>>

\* C16: while a Prob method that has read the handle is executing in the
\* engine, the finalizer has not released that handle.
C16_NoReleaseDuringCall == run # NoCall => eng[run.h].live

====
